---- MODULE Spec2Model ----
(***************************************************************************)
(* Model of scripts/examples/31-TV-Shield/tv.py: five configuration calls  *)
(* followed by an unconditional loop that displays every snapshot.         *)
(*                                                                         *)
(*    9  sensor.reset()                                                    *)
(*   10  sensor.set_pixformat(sensor.RGB565)                               *)
(*   11  sensor.set_framesize(sensor.QQVGA)                                *)
(*   12  tv.init()                                                         *)
(*   13  tv.channel(8)                                                     *)
(*   14  while(True):                                                      *)
(*   15      tv.display(sensor.snapshot())                                 *)
(*                                                                         *)
(* The script is one thread of control.  Its position is pc.  The sensor   *)
(* and tv modules are external: every call into them either returns or     *)
(* raises, and the script contains no try/except, so a raised exception    *)
(* unwinds the module and ends the script.                                 *)
(***************************************************************************)
EXTENDS Naturals, Sequences, FiniteSets

VARIABLES
    pc,              \* position of the script
    dev,             \* settings of the sensor and the tv shield
    calls,           \* configuration calls invoked so far, in order
    completed,       \* configuration calls that have returned, in order
    snapshotCalls,   \* number of sensor.snapshot() invocations
    captured,        \* frames returned by sensor.snapshot(), in order
    frame,           \* the frame the script holds on its evaluation stack
    displayed,       \* frames passed to tv.display(), in order of invocation
    displayReturns,  \* number of tv.display() calls that have returned
    failedIn         \* the call that raised, or "none"

vars == <<pc, dev, calls, completed, snapshotCalls, captured, frame,
          displayed, displayReturns, failedIn>>

----
\* Bounds of the model.

\* Number of loop iterations explored.
MaxIter == 3

\* Number of distinct frame objects the sensor may hand out.
NumFrames == 3

----
\* Values.

Frames == 1..NumFrames

NoFrame == 0

PixFormats == {"RGB565", "GRAYSCALE"}

FrameSizes == {"QQVGA", "QVGA"}

\* Mutant: the other pixel format the comment of line 10 names.
PixformatArgGray == "GRAYSCALE"

\* Argument of sensor.set_pixformat (line 10).
PixformatArg == "RGB565"

\* Argument of sensor.set_framesize (line 11).
FramesizeArg == "QQVGA"

\* Argument of tv.channel (line 13).
ChannelArg == 8

Channels == {0, ChannelArg}

\* The configuration statements in program order (lines 9 to 13).
ConfigOrder ==
    <<"sensor.reset", "sensor.set_pixformat", "sensor.set_framesize",
      "tv.init", "tv.channel">>

ConfigPcs == {ConfigOrder[i] : i \in 1..Len(ConfigOrder)}

\* Positions inside the loop of lines 14 and 15.
LoopPcs == {"while", "in_snapshot", "call_display", "in_display"}

DevStates ==
    [reset : BOOLEAN, pixformat : PixFormats, framesize : FrameSizes,
     tvInit : BOOLEAN, channel : Channels]

----
\* Control flow of the script.

\* Mutant: tv.channel is written before tv.init.
SuccSwapped(at) ==
    CASE at = "sensor.reset"         -> "sensor.set_pixformat"
      [] at = "sensor.set_pixformat" -> "sensor.set_framesize"
      [] at = "sensor.set_framesize" -> "tv.channel"
      [] at = "tv.channel"           -> "tv.init"
      [] at = "tv.init"              -> "while"
      [] at = "in_snapshot"          -> "call_display"
      [] at = "in_display"           -> "while"

\* Mutant: the snapshot is taken and thrown away; tv.display is not called.
SuccDropFrame(at) ==
    CASE at = "sensor.reset"         -> "sensor.set_pixformat"
      [] at = "sensor.set_pixformat" -> "sensor.set_framesize"
      [] at = "sensor.set_framesize" -> "tv.init"
      [] at = "tv.init"              -> "tv.channel"
      [] at = "tv.channel"           -> "while"
      [] at = "in_snapshot"          -> "while"
      [] at = "in_display"           -> "while"

\* The position reached when the call in progress at `at` returns.
Succ(at) ==
    CASE at = "sensor.reset"         -> "sensor.set_pixformat"
      [] at = "sensor.set_pixformat" -> "sensor.set_framesize"
      [] at = "sensor.set_framesize" -> "tv.init"
      [] at = "tv.init"              -> "tv.channel"
      [] at = "tv.channel"           -> "while"
      [] at = "in_snapshot"          -> "call_display"
      [] at = "in_display"           -> "while"

\* Mutant: the loop runs its body once.
LoopCondOnce == snapshotCalls = 0

\* The loop condition of line 14: while(True).
LoopCond == TRUE

\* Mutant: an exception inside the loop is swallowed and the loop goes on.
OnRaiseRetry(at) == IF at \in LoopPcs THEN "while" ELSE "raised"

\* Mutant: an exception of a statement is swallowed and the next one runs.
OnRaiseSkip(at) == IF at \in ConfigPcs THEN Succ(at) ELSE "raised"

\* The position reached when the call in progress at `at` raises: no
\* statement of the script is inside a try block, so the script ends.
OnRaise(at) == "raised"

\* Mutant: the frame of the previous iteration is displayed.
DisplayArgStale ==
    IF Len(captured) > 1 THEN captured[Len(captured) - 1] ELSE frame

\* The argument of tv.display on line 15: the value sensor.snapshot()
\* returned, passed by reference.
DisplayArg == frame

----
\* The state before line 9 runs.  The script may be started on a device in
\* any state a previous script left it in.
Init ==
    /\ pc = "sensor.reset"
    /\ dev \in DevStates
    /\ calls = <<>>
    /\ completed = <<>>
    /\ snapshotCalls = 0
    /\ captured = <<>>
    /\ frame = NoFrame
    /\ displayed = <<>>
    /\ displayReturns = 0
    /\ failedIn = "none"

\* What a configuration statement leaves unchanged apart from pc, dev and
\* the call logs.
ConfigFrame ==
    UNCHANGED <<snapshotCalls, captured, frame, displayed, displayReturns,
                failedIn>>

\* Line 9: sensor.reset() returns.  The driver puts the sensor into its
\* default state, whatever pixel format and frame size that is.
SensorReset ==
    /\ pc = "sensor.reset"
    /\ \E pf \in PixFormats, fs \in FrameSizes :
          dev' = [dev EXCEPT !.reset = TRUE, !.pixformat = pf,
                             !.framesize = fs]
    /\ calls' = Append(calls, "sensor.reset")
    /\ completed' = Append(completed, "sensor.reset")
    /\ pc' = Succ(pc)
    /\ ConfigFrame

\* Line 10: sensor.set_pixformat(sensor.RGB565) returns.
SetPixformat ==
    /\ pc = "sensor.set_pixformat"
    /\ dev' = [dev EXCEPT !.pixformat = PixformatArg]
    /\ calls' = Append(calls, "sensor.set_pixformat")
    /\ completed' = Append(completed, "sensor.set_pixformat")
    /\ pc' = Succ(pc)
    /\ ConfigFrame

\* Line 11: sensor.set_framesize(sensor.QQVGA) returns.
SetFramesize ==
    /\ pc = "sensor.set_framesize"
    /\ dev' = [dev EXCEPT !.framesize = FramesizeArg]
    /\ calls' = Append(calls, "sensor.set_framesize")
    /\ completed' = Append(completed, "sensor.set_framesize")
    /\ pc' = Succ(pc)
    /\ ConfigFrame

\* Line 12: tv.init() returns.  The shield comes up on whatever channel is
\* its default.
TvInit ==
    /\ pc = "tv.init"
    /\ \E ch \in Channels :
          dev' = [dev EXCEPT !.tvInit = TRUE, !.channel = ch]
    /\ calls' = Append(calls, "tv.init")
    /\ completed' = Append(completed, "tv.init")
    /\ pc' = Succ(pc)
    /\ ConfigFrame

\* Line 13: tv.channel(8) returns.
TvChannel ==
    /\ pc = "tv.channel"
    /\ dev' = [dev EXCEPT !.channel = ChannelArg]
    /\ calls' = Append(calls, "tv.channel")
    /\ completed' = Append(completed, "tv.channel")
    /\ pc' = Succ(pc)
    /\ ConfigFrame

\* Lines 9 to 13: the configuration call at pc raises.  The call was made;
\* it did not complete and its setting was not written.
ConfigRaise ==
    /\ pc \in ConfigPcs
    /\ calls' = Append(calls, pc)
    /\ failedIn' = pc
    /\ pc' = OnRaise(pc)
    /\ UNCHANGED <<dev, completed, snapshotCalls, captured, frame, displayed,
                   displayReturns>>

\* Line 14 and the inner call of line 15: the loop condition is evaluated
\* and, when true, sensor.snapshot() is invoked.
WhileTest ==
    /\ pc = "while"
    /\ IF LoopCond
          THEN /\ snapshotCalls < MaxIter
               /\ snapshotCalls' = snapshotCalls + 1
               /\ pc' = "in_snapshot"
          ELSE /\ pc' = "done"
               /\ UNCHANGED snapshotCalls
    /\ UNCHANGED <<dev, calls, completed, captured, frame, displayed,
                   displayReturns, failedIn>>

\* Line 15: sensor.snapshot() returns the frame f.
SnapshotReturn(f) ==
    /\ pc = "in_snapshot"
    /\ captured' = Append(captured, f)
    /\ frame' = f
    /\ pc' = Succ(pc)
    /\ UNCHANGED <<dev, calls, completed, snapshotCalls, displayed,
                   displayReturns, failedIn>>

\* Line 15: sensor.snapshot() raises.
SnapshotRaise ==
    /\ pc = "in_snapshot"
    /\ failedIn' = "sensor.snapshot"
    /\ pc' = OnRaise(pc)
    /\ UNCHANGED <<dev, calls, completed, snapshotCalls, captured, frame,
                   displayed, displayReturns>>

\* Mutant: the display is started and the loop goes on without waiting for
\* it to return.
DisplayCallAsync ==
    /\ pc = "call_display"
    /\ displayed' = Append(displayed, DisplayArg)
    /\ pc' = "while"
    /\ UNCHANGED <<dev, calls, completed, snapshotCalls, captured, frame,
                   displayReturns, failedIn>>

\* Mutant: the frame is sent to the display twice.
DisplayCallTwice ==
    /\ pc = "call_display"
    /\ displayed' = Append(Append(displayed, DisplayArg), DisplayArg)
    /\ pc' = "in_display"
    /\ UNCHANGED <<dev, calls, completed, snapshotCalls, captured, frame,
                   displayReturns, failedIn>>

\* Line 15: tv.display is invoked with the value of its argument.
DisplayCall ==
    /\ pc = "call_display"
    /\ displayed' = Append(displayed, DisplayArg)
    /\ pc' = "in_display"
    /\ UNCHANGED <<dev, calls, completed, snapshotCalls, captured, frame,
                   displayReturns, failedIn>>

\* Line 15: tv.display returns; the expression statement drops its value and
\* the argument, and control goes back to line 14.
DisplayReturn ==
    /\ pc = "in_display"
    /\ displayReturns' = displayReturns + 1
    /\ frame' = NoFrame
    /\ pc' = Succ(pc)
    /\ UNCHANGED <<dev, calls, completed, snapshotCalls, captured, displayed,
                   failedIn>>

\* Line 15: tv.display raises.
DisplayRaise ==
    /\ pc = "in_display"
    /\ failedIn' = "tv.display"
    /\ frame' = NoFrame
    /\ pc' = OnRaise(pc)
    /\ UNCHANGED <<dev, calls, completed, snapshotCalls, captured, displayed,
                   displayReturns>>

Next ==
    \/ SensorReset
    \/ SetPixformat
    \/ SetFramesize
    \/ TvInit
    \/ TvChannel
    \/ ConfigRaise
    \/ WhileTest
    \/ \E f \in Frames : SnapshotReturn(f)
    \/ SnapshotRaise
    \/ DisplayCall
    \/ DisplayReturn
    \/ DisplayRaise

Spec == Init /\ [][Next]_vars

\* The script keeps being scheduled: whenever it has a step, it takes one.
LiveSpec == Init /\ [][Next]_vars /\ WF_vars(Next)

----
\* Helpers of the properties.

IsPrefix(s, t) ==
    /\ Len(s) <= Len(t)
    /\ \A i \in 1..Len(s) : s[i] = t[i]

Last(s) == s[Len(s)]

\* The loop has been entered.
InLoopPhase == pc \in LoopPcs \/ snapshotCalls > 0 \/ Len(displayed) > 0

NoFailure == failedIn = "none"

\* The settings the setup of lines 9 to 13 asks for.
Configured ==
    [reset |-> TRUE, pixformat |-> "RGB565", framesize |-> "QQVGA",
     tvInit |-> TRUE, channel |-> 8]

\* A step taken inside the loop writes no setting and makes no configuration
\* call.
LoopStepKeepsConfig ==
    pc \in LoopPcs => (dev' = dev /\ calls' = calls)

----
\* C1: tv.display is invoked exactly once for each snapshot that returns, with
\* the frame that snapshot returned in the same iteration: the number of
\* display calls equals the number of captures, or is one less exactly while
\* the script is between the capture and the display call, and the frame
\* held (then displayed) is the one captured last.
C1_DisplayOncePerCapture ==
    IF pc = "call_display"
       THEN /\ Len(captured) = Len(displayed) + 1
            /\ frame = Last(captured)
       ELSE /\ Len(displayed) = Len(captured)
            /\ Len(displayed) > 0 => Last(displayed) = Last(captured)

\* C1 witness: the second iteration has displayed a frame other than the
\* first one.
C1_Witness ==
    /\ pc = "in_display"
    /\ Len(displayed) = 2
    /\ displayed[1] # displayed[2]

\* C2: the five configuration calls occur in program order, each at most
\* once, and once the loop is entered each has occurred exactly once and has
\* returned.
C2_ConfigOnceInOrder ==
    /\ IsPrefix(calls, ConfigOrder)
    /\ IsPrefix(completed, calls)
    /\ InLoopPhase => (calls = ConfigOrder /\ completed = ConfigOrder)

\* C2 witness: the first snapshot call is in progress.
C2_Witness ==
    /\ pc = "in_snapshot"
    /\ snapshotCalls = 1
    /\ completed = ConfigOrder

\* C3: the script never reaches a terminated state on its own; while no
\* call has raised it always has a next step (up to the iteration bound of
\* the model), and after any number of completed iterations it is still in
\* the loop with no configuration call made a second time.
C3_LoopNeverTerminates ==
    /\ pc # "done"
    /\ (NoFailure /\ ~(pc = "while" /\ snapshotCalls = MaxIter))
          => ENABLED Next
    /\ (NoFailure /\ displayReturns >= 1)
          => (pc \in LoopPcs /\ calls = ConfigOrder)

\* C3 witness: every iteration the model explores has completed.
C3_Witness ==
    /\ NoFailure
    /\ displayReturns = MaxIter
    /\ pc = "while"

\* C4: the frames passed to tv.display are always a prefix of the frames
\* sensor.snapshot returned: same frames, same order, no gaps.
C4_DisplayedPrefixOfCaptured == IsPrefix(displayed, captured)

\* C4 witness: the captures returned F1, F2, F3 and the display received
\* F1, F2, F3.
C4_Witness ==
    /\ captured = <<1, 2, 3>>
    /\ displayed = <<1, 2, 3>>

\* C5: an exception of sensor.snapshot or tv.display ends the script.  After
\* a failed snapshot the display was not called for that iteration, and after
\* either failure no snapshot or display call is ever made again: in every
\* state after the failure the failed call is still the last one.
C5_LoopErrorIsFatal ==
    /\ failedIn = "sensor.snapshot" =>
          /\ pc = "raised"
          /\ snapshotCalls = Len(captured) + 1
          /\ Len(displayed) = Len(captured)
          /\ displayReturns = Len(displayed)
    /\ failedIn = "tv.display" =>
          /\ pc = "raised"
          /\ snapshotCalls = Len(captured)
          /\ Len(displayed) = Len(captured)
          /\ displayReturns + 1 = Len(displayed)

\* C5 witness: the snapshot of the second iteration raised.
C5_Witness ==
    /\ failedIn = "sensor.snapshot"
    /\ snapshotCalls = 2
    /\ Len(displayed) = 1

\* C6: a configuration call that raises ends the script: it is the last
\* configuration call ever made, the ones before it are the only ones that
\* completed, and sensor.snapshot and tv.display are never called.
C6_ConfigErrorIsFatal ==
    failedIn \in ConfigPcs =>
        /\ pc = "raised"
        /\ Len(calls) > 0
        /\ Last(calls) = failedIn
        /\ IsPrefix(calls, ConfigOrder)
        /\ Len(completed) + 1 = Len(calls)
        /\ IsPrefix(completed, calls)
        /\ snapshotCalls = 0
        /\ captured = <<>>
        /\ displayed = <<>>

\* C6 witness: sensor.set_framesize raised.
C6_Witness ==
    /\ failedIn = "sensor.set_framesize"
    /\ calls = SubSeq(ConfigOrder, 1, 3)

\* C7: iterations do not overlap.  At most one captured frame is not yet
\* displayed; while a snapshot call is in progress every earlier display call
\* has returned; the script holds a frame only between its capture and the
\* return of its display, and that frame is the one captured last.
C7_OneFrameInFlight ==
    /\ Len(displayed) <= Len(captured)
    /\ Len(captured) <= Len(displayed) + 1
    /\ pc = "in_snapshot" =>
          /\ displayReturns + 1 = snapshotCalls
          /\ Len(displayed) = displayReturns
          /\ Len(captured) = displayReturns
    /\ pc \in {"while", "in_snapshot"} => frame = NoFrame
    /\ frame # NoFrame =>
          /\ pc \in {"call_display", "in_display"}
          /\ frame = Last(captured)

\* C7 witness: the snapshot of the second iteration is in progress.
C7_Witness ==
    /\ pc = "in_snapshot"
    /\ snapshotCalls = 2
    /\ displayReturns = 1

\* C8: if no call ever raises and the script keeps being scheduled, every
\* frame sensor.snapshot returns is eventually passed to tv.display, and the
\* number of displayed frames keeps growing (up to the iteration bound of the
\* model).
C8_EveryFrameDisplayed ==
    ([]NoFailure) =>
        /\ \A n \in 1..MaxIter : \A f \in Frames :
              (Len(captured) >= n /\ captured[n] = f)
                  ~> (Len(displayed) >= n /\ displayed[n] = f)
        /\ \A n \in 0..(MaxIter - 1) :
              (Len(displayed) = n) ~> (Len(displayed) = n + 1)

\* C8 witness: every iteration the model explores has displayed its frame.
C8_Witness ==
    /\ NoFailure
    /\ Len(displayed) = MaxIter
    /\ displayed = captured

\* C9: at every snapshot and display call the sensor has been reset, the
\* pixel format is RGB565, the frame size is QQVGA, the tv output is
\* initialized and the channel is 8; and no step of the loop writes a setting
\* or makes a configuration call.
C9_ConfigStableInLoop ==
    /\ [](InLoopPhase => dev = Configured)
    /\ [][LoopStepKeepsConfig]_vars

\* C9 witness: the second display call is in progress on a configured device.
C9_Witness ==
    /\ pc = "in_display"
    /\ Len(displayed) = 2
    /\ dev = Configured

====
